---- MODULE Spec2Model ----
(***************************************************************************)
(* A model of the transaction machine: the per-client state machine        *)
(* (src/client/mod.rs, src/client/balance.rs), the typed store facade over *)
(* a two-keyspace engine (src/client/store.rs, src/db/mem.rs), the client  *)
(* actor (Client::run) and the dispatcher with its LRU of live actors      *)
(* (src/io.rs).                                                            *)
(*                                                                         *)
(* Amounts are f64 in the source.  The model draws them from a small range *)
(* of integers, on which f64 addition and subtraction are exact and        *)
(* is_sign_negative(x) is x < 0 (the value -0.0 is not drawn).             *)
(***************************************************************************)
EXTENDS Integers, Sequences, FiniteSets, TLC

\* ------------------------------------------------------------------------
\* Bounds of the model
\* ------------------------------------------------------------------------
\* The records of the input name clients 1..NumClients and transaction ids
\* 1..NumTxIds.
NumClients == 2
\* The records of the wide input name clients 1..MaxClientId, more clients
\* than an LRU can hold.
MaxClientId == 3
NumTxIds == 2
\* Amounts of the input records range over -1..MaxAmount.
MaxAmount == 1
\* Number of records the reader emits in one run.
MaxTx == 4
\* The LRU capacity of a run is drawn from 1..MaxCapacity.
MaxCapacity == 2
\* Capacity of the input channel between reader and dispatcher.
MaxBuffer == 2
\* Number of records of a run whose applied records are logged.
MaxLogTx == 4
\* Number of records of a run whose input is replayed after it.
MaxReplayTx == 2
\* Number of records of a run whose store can fail.
MaxFaultyTx == 3
\* Number of records of a run over the narrow input.
MaxDeepTx == 5

\* Number of records of a run whose input names one client.
MaxSoloTx == 6

\* Number of records of a fairly scheduled run without store failures.
MaxLiveTx == 3

\* Number of records of a fairly scheduled run over the wide input.
MaxWideTx == 5

\* Number of direct calls of execute_transaction on one ClientState.
MaxCallTx == 4

\* Number of direct calls of the store facade on one store.
MaxStoreOps == 3

\* Number of records of a run over a well-formed input.
MaxStrictTx == 4

ClientIds == 1..MaxClientId
InputClientIds == 1..NumClients
TxIds == 1..NumTxIds
Amounts == (0 - 1)..MaxAmount

\* ------------------------------------------------------------------------
\* Transactions (src/transaction.rs)
\* ------------------------------------------------------------------------
NotDisputed == "NotDisputed"
Disputed == "Disputed"
Resolved == "Resolved"
DisputeStatus == {NotDisputed, Disputed, Resolved}

TransferTransactionKind == {"Deposit", "Withdrawal"}
DisputedTransactionKind == {"Dispute", "Resolve", "Chargeback"}

\* Transaction::Transfer(TransferTransaction { kind, client, tx, amount, disputed })
TransferTransaction(kind, client, tx, amount, disputed) ==
    [type |-> "Transfer", kind |-> kind, client |-> client, tx |-> tx,
     amount |-> amount, disputed |-> disputed]

\* Transaction::Disputed(DisputedTransaction { kind, client, tx })
DisputedTransaction(kind, client, tx) ==
    [type |-> "Disputed", kind |-> kind, client |-> client, tx |-> tx]

\* The records the reader can produce (parser: a transfer always starts
\* with disputed = Default = NotDisputed).
Transaction ==
    { TransferTransaction(k, c, x, a, NotDisputed) :
        k \in TransferTransactionKind, c \in InputClientIds, x \in TxIds, a \in Amounts }
    \cup
    { DisputedTransaction(k, c, x) :
        k \in DisputedTransactionKind, c \in InputClientIds, x \in TxIds }

\* The narrow input: records about one transaction id, transfers of the
\* largest amount.
NarrowTransaction ==
    { t \in Transaction : t.tx = 1 /\ (t.type = "Transfer" => t.amount = MaxAmount) }

\* The records of a file whose lines all name client 1.
SoloTransaction == { t \in Transaction : t.client = 1 }

\* The wide input: every record is a deposit of the largest amount, by any
\* client.
WideTransaction ==
    { TransferTransaction("Deposit", c, 1, MaxAmount, NotDisputed) : c \in ClientIds }

client_id(t) == t.client

\* ------------------------------------------------------------------------
\* Errors (src/client/mod.rs)
\* ------------------------------------------------------------------------
DISPUTE_MISMATCH == "Only a transfer can be disputed"
DISPUTE_WITHDRAWAL == "Cannot dispute a withdrawal"
NOT_DISPUTED == "Transaction is not disputed"
ALREADY_DISPUTED == "Transaction is already disputed"
DISPUTE_RESOLVED == "Dispute already resolved"

Ok == [kind |-> "Ok", msg |-> ""]
ClientError(kind) == [kind |-> kind, msg |-> ""]
DisputeError(msg) == [kind |-> "DisputeError", msg |-> msg]
StoreError(what) == [kind |-> "StoreError", msg |-> what]

\* Variant: no error is fatal.
is_fatal_none(e) == FALSE

\* Variant: every error is fatal.
is_fatal_any(e) == e.kind # "Ok"

is_fatal(e) == e.kind = "StoreError"

\* ------------------------------------------------------------------------
\* Account (src/client/balance.rs).  A mutator returns the account after
\* the call and the Result.
\* ------------------------------------------------------------------------
Account(available, held) == [available |-> available, held |-> held]

\* Variant: a deposit of nothing is refused.
deposit_strict(acc, amount) ==
    IF amount <= 0
    THEN [acc |-> acc, result |-> ClientError("NegativeValue")]
    ELSE [acc |-> Account(acc.available + amount, acc.held), result |-> Ok]

deposit(acc, amount) ==
    IF amount < 0
    THEN [acc |-> acc, result |-> ClientError("NegativeValue")]
    ELSE [acc |-> Account(acc.available + amount, acc.held), result |-> Ok]

\* Variant: a withdrawal of nothing needs no funds.
withdraw_free(acc, amount) ==
    IF amount < 0
    THEN [acc |-> acc, result |-> ClientError("NegativeValue")]
    ELSE IF amount > 0 /\ acc.available - amount < 0
         THEN [acc |-> acc, result |-> ClientError("InsufficientFunds")]
         ELSE [acc |-> Account(acc.available - amount, acc.held), result |-> Ok]

\* Variant: held funds count as funds to withdraw from.
withdraw_total(acc, amount) ==
    IF amount < 0
    THEN [acc |-> acc, result |-> ClientError("NegativeValue")]
    ELSE IF acc.available + acc.held - amount < 0
         THEN [acc |-> acc, result |-> ClientError("InsufficientFunds")]
         ELSE [acc |-> Account(acc.available - amount, acc.held), result |-> Ok]

\* Variant: the funds are taken out before they are found insufficient.
withdraw_unchecked(acc, amount) ==
    IF amount < 0
    THEN [acc |-> acc, result |-> ClientError("NegativeValue")]
    ELSE [acc |-> Account(acc.available - amount, acc.held),
          result |-> IF acc.available - amount < 0
                     THEN ClientError("InsufficientFunds")
                     ELSE Ok]

\* Variant: a withdrawal may overdraw the available funds by one.
withdraw_overdraft(acc, amount) ==
    IF amount < 0
    THEN [acc |-> acc, result |-> ClientError("NegativeValue")]
    ELSE IF acc.available - amount < 0 - 1
         THEN [acc |-> acc, result |-> ClientError("InsufficientFunds")]
         ELSE [acc |-> Account(acc.available - amount, acc.held), result |-> Ok]

withdraw(acc, amount) ==
    IF amount < 0
    THEN [acc |-> acc, result |-> ClientError("NegativeValue")]
    ELSE IF acc.available - amount < 0
         THEN [acc |-> acc, result |-> ClientError("InsufficientFunds")]
         ELSE [acc |-> Account(acc.available - amount, acc.held), result |-> Ok]

\* Variant: funds that are not available cannot be held.
hold_checked(acc, amount) ==
    IF amount < 0
    THEN [acc |-> acc, result |-> ClientError("NegativeValue")]
    ELSE IF acc.available - amount < 0
         THEN [acc |-> acc, result |-> ClientError("InsufficientFunds")]
         ELSE [acc |-> Account(acc.available - amount, acc.held + amount), result |-> Ok]

hold(acc, amount) ==
    IF amount < 0
    THEN [acc |-> acc, result |-> ClientError("NegativeValue")]
    ELSE [acc |-> Account(acc.available - amount, acc.held + amount), result |-> Ok]

\* Variant: released funds do not return to the available funds.
release_drop(acc, amount) == Account(acc.available, acc.held - amount)

get_total(acc) == acc.available + acc.held

release(acc, amount) == Account(acc.available + amount, acc.held - amount)

\* Variant: a charge takes the amount from available as well.
charge_both(acc, amount) == Account(acc.available - amount, acc.held - amount)

\* Variant: a charge leaves the held funds as they are.
charge_none(acc, amount) == acc

charge(acc, amount) == Account(acc.available, acc.held - amount)

\* ------------------------------------------------------------------------
\* ClientState (src/client/mod.rs)
\* ------------------------------------------------------------------------
ClientState(id, balance, frozen) == [id |-> id, balance |-> balance, frozen |-> frozen]

ClientState_new(id) == ClientState(id, Account(0, 0), FALSE)

\* ------------------------------------------------------------------------
\* Store engine and typed facade (src/db/mem.rs, src/client/store.rs).
\* The engine maps a keyspace name to a map from key to value; an absent
\* key reads as Absent (Ok(None)).  Keys are the serialized ids: the
\* serialization of a u16 ClientId and of a u32 TxId are kept apart by their
\* width.  Values are the bincode serializations of a Transaction and of a
\* ClientState: the fields in declaration order, an enum as the index of its
\* variant followed by the variant's fields, a bool as 0 or 1.
\* `fail` names the store call of the current operation that the backend
\* fails ("none" when the backend works).
\* ------------------------------------------------------------------------
CLIENTS_KS == "clients"
TRANSACTIONS_KS == "transactions"

None == [type |-> "None"]

Absent == <<>>

serialize_u16(id) == <<"u16", id>>
serialize_u32(id) == <<"u32", id>>
Keys == { serialize_u16(c) : c \in ClientIds } \cup { serialize_u32(x) : x \in TxIds }

VariantIndex(variants, v) == CHOOSE i \in 1..Len(variants) : variants[i] = v

TransferTransactionKinds == <<"Deposit", "Withdrawal">>
DisputedTransactionKinds == <<"Dispute", "Resolve", "Chargeback">>
DisputeStatuses == <<NotDisputed, Disputed, Resolved>>

serialize_Transaction(t) ==
    IF t.type = "Transfer"
    THEN <<0, VariantIndex(TransferTransactionKinds, t.kind) - 1, t.client, t.tx, t.amount,
           VariantIndex(DisputeStatuses, t.disputed) - 1>>
    ELSE <<1, VariantIndex(DisputedTransactionKinds, t.kind) - 1, t.client, t.tx>>

\* Variant: the dispute status is not read back (it takes its default).
deserialize_Transaction_default(bytes) ==
    IF bytes[1] = 0
    THEN TransferTransaction(TransferTransactionKinds[bytes[2] + 1], bytes[3], bytes[4],
                             bytes[5], NotDisputed)
    ELSE DisputedTransaction(DisputedTransactionKinds[bytes[2] + 1], bytes[3], bytes[4])

deserialize_Transaction(bytes) ==
    IF bytes[1] = 0
    THEN TransferTransaction(TransferTransactionKinds[bytes[2] + 1], bytes[3], bytes[4],
                             bytes[5], DisputeStatuses[bytes[6] + 1])
    ELSE DisputedTransaction(DisputedTransactionKinds[bytes[2] + 1], bytes[3], bytes[4])

serialize_ClientState(state) ==
    <<state.id, state.balance.available, state.balance.held,
      IF state.frozen THEN 1 ELSE 0>>

deserialize_ClientState(bytes) ==
    ClientState(bytes[1], Account(bytes[2], bytes[3]), bytes[4] = 1)

EmptyStore == [ks \in {CLIENTS_KS, TRANSACTIONS_KS} |-> [k \in Keys |-> Absent]]

MemStore_put(st, keyspace, key, value) ==
    [st EXCEPT ![keyspace] = [@ EXCEPT ![key] = value]]

MemStore_get(st, keyspace, key) == st[keyspace][key]

get_transaction(st, transaction_id, fail) ==
    IF fail = "get_transaction"
    THEN [ok |-> FALSE, value |-> None, err |-> StoreError("Read")]
    ELSE LET value == MemStore_get(st, TRANSACTIONS_KS, serialize_u32(transaction_id))
         IN  [ok |-> TRUE,
              value |-> IF value = Absent THEN None ELSE deserialize_Transaction(value),
              err |-> Ok]

put_transaction(st, transaction, fail) ==
    IF fail = "put_transaction"
    THEN [ok |-> FALSE, store |-> st, err |-> StoreError("Write")]
    ELSE [ok |-> TRUE,
          store |-> MemStore_put(st, TRANSACTIONS_KS, serialize_u32(transaction.tx),
                                 serialize_Transaction(transaction)),
          err |-> Ok]

get_client_state(st, id, fail) ==
    IF fail = "get_client_state"
    THEN [ok |-> FALSE, value |-> None, err |-> StoreError("Read")]
    ELSE LET value == MemStore_get(st, CLIENTS_KS, serialize_u16(id))
         IN  [ok |-> TRUE,
              value |-> IF value = Absent THEN None ELSE deserialize_ClientState(value),
              err |-> Ok]

\* Variant: the row of a client is inserted but never updated.
put_client_state_once(st, state, fail) ==
    IF fail = "put_client_state"
    THEN [ok |-> FALSE, store |-> st, err |-> StoreError("Write")]
    ELSE [ok |-> TRUE,
          store |-> IF MemStore_get(st, CLIENTS_KS, serialize_u16(state.id)) = Absent
                    THEN MemStore_put(st, CLIENTS_KS, serialize_u16(state.id),
                                      serialize_ClientState(state))
                    ELSE st,
          err |-> Ok]

put_client_state(st, state, fail) ==
    IF fail = "put_client_state"
    THEN [ok |-> FALSE, store |-> st, err |-> StoreError("Write")]
    ELSE [ok |-> TRUE,
          store |-> MemStore_put(st, CLIENTS_KS, serialize_u16(state.id),
                                 serialize_ClientState(state)),
          err |-> Ok]

\* The stored rows, by id.
ClientRow(st, c) == get_client_state(st, c, "none").value
TxRow(st, x) == get_transaction(st, x, "none").value

\* ------------------------------------------------------------------------
\* The client state machine (src/client/mod.rs).  Every operation returns
\* the ClientState after the call, the store after the call and the Result.
\* ------------------------------------------------------------------------
Outcome(state, st, result) == [state |-> state, store |-> st, result |-> result]

\* Variant: a transfer whose TxId has a row keeps the status of that row.
execute_transfer_keepstatus(self, transaction, st, fail) ==
    LET r == IF transaction.kind = "Deposit"
             THEN deposit(self.balance, transaction.amount)
             ELSE withdraw(self.balance, transaction.amount)
        mutated == [self EXCEPT !.balance = r.acc]
        row == TxRow(st, transaction.tx)
        kept == IF row.type = "Transfer"
                THEN [transaction EXCEPT !.disputed = row.disputed]
                ELSE transaction
    IN  IF r.result = Ok
        THEN LET p == put_transaction(st, kept, fail)
             IN  IF p.ok
                 THEN Outcome(mutated, p.store, r.result)
                 ELSE Outcome(mutated, st, p.err)
        ELSE Outcome(mutated, st, r.result)

execute_transfer(self, transaction, st, fail) ==
    LET r == IF transaction.kind = "Deposit"
             THEN deposit(self.balance, transaction.amount)
             ELSE withdraw(self.balance, transaction.amount)
        mutated == [self EXCEPT !.balance = r.acc]
    IN  IF r.result = Ok
        THEN LET p == put_transaction(st, transaction, fail)
             IN  IF p.ok
                 THEN Outcome(mutated, p.store, r.result)
                 ELSE Outcome(mutated, st, p.err)
        ELSE Outcome(mutated, st, r.result)

\* Variant: a dispute does not look for status Disputed.
execute_dispute_twice(self, tx_id, st, fail) ==
    LET g == get_transaction(st, tx_id, fail)
        transfer == g.value
    IN  IF ~g.ok THEN Outcome(self, st, g.err)
        ELSE IF transfer.type = "Transfer"
        THEN IF transfer.kind = "Deposit"
             THEN IF FALSE
                  THEN Outcome(self, st, DisputeError(ALREADY_DISPUTED))
                  ELSE LET processed == [transfer EXCEPT !.disputed = Disputed]
                           p == put_transaction(st, processed, fail)
                           h == hold(self.balance, transfer.amount)
                       IN  IF ~p.ok
                           THEN Outcome(self, st, p.err)
                           ELSE Outcome([self EXCEPT !.balance = h.acc], p.store,
                                        h.result)
             ELSE Outcome(self, st, DisputeError(DISPUTE_WITHDRAWAL))
        ELSE IF transfer.type = "Disputed"
        THEN Outcome(self, st, DisputeError(DISPUTE_MISMATCH))
        ELSE Outcome(self, st, ClientError("TransactionNotFound"))

\* Variant: a dispute takes a withdrawal like a deposit.
execute_dispute_any(self, tx_id, st, fail) ==
    LET g == get_transaction(st, tx_id, fail)
        transfer == g.value
    IN  IF ~g.ok THEN Outcome(self, st, g.err)
        ELSE IF transfer.type = "Transfer"
        THEN IF TRUE
             THEN IF transfer.disputed = Disputed
                  THEN Outcome(self, st, DisputeError(ALREADY_DISPUTED))
                  ELSE LET processed == [transfer EXCEPT !.disputed = Disputed]
                           p == put_transaction(st, processed, fail)
                           h == hold(self.balance, transfer.amount)
                       IN  IF ~p.ok
                           THEN Outcome(self, st, p.err)
                           ELSE Outcome([self EXCEPT !.balance = h.acc], p.store,
                                        h.result)
             ELSE Outcome(self, st, DisputeError(DISPUTE_WITHDRAWAL))
        ELSE IF transfer.type = "Disputed"
        THEN Outcome(self, st, DisputeError(DISPUTE_MISMATCH))
        ELSE Outcome(self, st, ClientError("TransactionNotFound"))

\* Variant: the funds are held before the row is written.
execute_dispute_holdfirst(self, tx_id, st, fail) ==
    LET g == get_transaction(st, tx_id, fail)
        transfer == g.value
    IN  IF ~g.ok THEN Outcome(self, st, g.err)
        ELSE IF transfer.type = "Transfer"
        THEN IF transfer.kind = "Deposit"
             THEN IF transfer.disputed = Disputed
                  THEN Outcome(self, st, DisputeError(ALREADY_DISPUTED))
                  ELSE LET processed == [transfer EXCEPT !.disputed = Disputed]
                           h == hold(self.balance, transfer.amount)
                           held == [self EXCEPT !.balance = h.acc]
                           p == put_transaction(st, processed, fail)
                       IN  IF h.result # Ok
                           THEN Outcome(held, st, h.result)
                           ELSE IF ~p.ok
                           THEN Outcome(held, st, p.err)
                           ELSE Outcome(held, p.store, Ok)
             ELSE Outcome(self, st, DisputeError(DISPUTE_WITHDRAWAL))
        ELSE IF transfer.type = "Disputed"
        THEN Outcome(self, st, DisputeError(DISPUTE_MISMATCH))
        ELSE Outcome(self, st, ClientError("TransactionNotFound"))

execute_dispute(self, tx_id, st, fail) ==
    LET g == get_transaction(st, tx_id, fail)
        transfer == g.value
    IN  IF ~g.ok THEN Outcome(self, st, g.err)
        ELSE IF transfer.type = "Transfer"
        THEN IF transfer.kind = "Deposit"
             THEN IF transfer.disputed = Disputed
                  THEN Outcome(self, st, DisputeError(ALREADY_DISPUTED))
                  ELSE LET processed == [transfer EXCEPT !.disputed = Disputed]
                           p == put_transaction(st, processed, fail)
                           h == hold(self.balance, transfer.amount)
                       IN  IF ~p.ok
                           THEN Outcome(self, st, p.err)
                           ELSE Outcome([self EXCEPT !.balance = h.acc], p.store,
                                        h.result)
             ELSE Outcome(self, st, DisputeError(DISPUTE_WITHDRAWAL))
        ELSE IF transfer.type = "Disputed"
        THEN Outcome(self, st, DisputeError(DISPUTE_MISMATCH))
        ELSE Outcome(self, st, ClientError("TransactionNotFound"))

\* Variant: a resolve of a TxId without a row reports "not disputed".
execute_resolve_missing(self, tx_id, st, fail) ==
    LET g == get_transaction(st, tx_id, fail)
        transfer == g.value
    IN  IF ~g.ok THEN Outcome(self, st, g.err)
        ELSE IF transfer.type = "Transfer"
        THEN IF transfer.disputed = NotDisputed
             THEN Outcome(self, st, DisputeError(NOT_DISPUTED))
             ELSE LET processed == [transfer EXCEPT !.disputed = NotDisputed]
                      p == put_transaction(st, processed, fail)
                  IN  IF ~p.ok
                      THEN Outcome(self, st, p.err)
                      ELSE Outcome([self EXCEPT
                                       !.balance = release(self.balance, transfer.amount)],
                                   p.store, Ok)
        ELSE IF transfer.type = "Disputed"
        THEN Outcome(self, st, DisputeError(DISPUTE_MISMATCH))
        ELSE Outcome(self, st, DisputeError(NOT_DISPUTED))

\* Variant: a resolve marks the row Resolved.
execute_resolve_resolved(self, tx_id, st, fail) ==
    LET g == get_transaction(st, tx_id, fail)
        transfer == g.value
    IN  IF ~g.ok THEN Outcome(self, st, g.err)
        ELSE IF transfer.type = "Transfer"
        THEN IF transfer.disputed = NotDisputed
             THEN Outcome(self, st, DisputeError(NOT_DISPUTED))
             ELSE LET processed == [transfer EXCEPT !.disputed = Resolved]
                      p == put_transaction(st, processed, fail)
                  IN  IF ~p.ok
                      THEN Outcome(self, st, p.err)
                      ELSE Outcome([self EXCEPT
                                       !.balance = release(self.balance, transfer.amount)],
                                   p.store, Ok)
        ELSE IF transfer.type = "Disputed"
        THEN Outcome(self, st, DisputeError(DISPUTE_MISMATCH))
        ELSE Outcome(self, st, ClientError("TransactionNotFound"))

execute_resolve(self, tx_id, st, fail) ==
    LET g == get_transaction(st, tx_id, fail)
        transfer == g.value
    IN  IF ~g.ok THEN Outcome(self, st, g.err)
        ELSE IF transfer.type = "Transfer"
        THEN IF transfer.disputed = NotDisputed
             THEN Outcome(self, st, DisputeError(NOT_DISPUTED))
             ELSE LET processed == [transfer EXCEPT !.disputed = NotDisputed]
                      p == put_transaction(st, processed, fail)
                  IN  IF ~p.ok
                      THEN Outcome(self, st, p.err)
                      ELSE Outcome([self EXCEPT
                                       !.balance = release(self.balance, transfer.amount)],
                                   p.store, Ok)
        ELSE IF transfer.type = "Disputed"
        THEN Outcome(self, st, DisputeError(DISPUTE_MISMATCH))
        ELSE Outcome(self, st, ClientError("TransactionNotFound"))

\* Variant: a chargeback does not look for status NotDisputed.
execute_chargeback_unchecked(self, tx_id, st, fail) ==
    LET g == get_transaction(st, tx_id, fail)
        transfer == g.value
    IN  IF ~g.ok THEN Outcome(self, st, g.err)
        ELSE IF transfer.type = "Transfer"
        THEN IF transfer.disputed = Resolved
             THEN Outcome(self, st, DisputeError(DISPUTE_RESOLVED))
             ELSE LET processed == [transfer EXCEPT !.disputed = Resolved]
                      p == put_transaction(st, processed, fail)
                  IN  IF ~p.ok
                      THEN Outcome(self, st, p.err)
                      ELSE Outcome([self EXCEPT
                                       !.balance = charge(self.balance, transfer.amount),
                                       !.frozen = TRUE],
                                   p.store, Ok)
        ELSE IF transfer.type = "Disputed"
        THEN Outcome(self, st, DisputeError(DISPUTE_MISMATCH))
        ELSE Outcome(self, st, ClientError("TransactionNotFound"))

\* Variant: a chargeback does not look for status Resolved.
execute_chargeback_again(self, tx_id, st, fail) ==
    LET g == get_transaction(st, tx_id, fail)
        transfer == g.value
    IN  IF ~g.ok THEN Outcome(self, st, g.err)
        ELSE IF transfer.type = "Transfer"
        THEN IF transfer.disputed = NotDisputed
             THEN Outcome(self, st, DisputeError(NOT_DISPUTED))
             ELSE LET processed == [transfer EXCEPT !.disputed = Resolved]
                      p == put_transaction(st, processed, fail)
                  IN  IF ~p.ok
                      THEN Outcome(self, st, p.err)
                      ELSE Outcome([self EXCEPT
                                       !.balance = charge(self.balance, transfer.amount),
                                       !.frozen = TRUE],
                                   p.store, Ok)
        ELSE IF transfer.type = "Disputed"
        THEN Outcome(self, st, DisputeError(DISPUTE_MISMATCH))
        ELSE Outcome(self, st, ClientError("TransactionNotFound"))

execute_chargeback(self, tx_id, st, fail) ==
    LET g == get_transaction(st, tx_id, fail)
        transfer == g.value
    IN  IF ~g.ok THEN Outcome(self, st, g.err)
        ELSE IF transfer.type = "Transfer"
        THEN IF transfer.disputed = NotDisputed
             THEN Outcome(self, st, DisputeError(NOT_DISPUTED))
             ELSE IF transfer.disputed = Resolved
             THEN Outcome(self, st, DisputeError(DISPUTE_RESOLVED))
             ELSE LET processed == [transfer EXCEPT !.disputed = Resolved]
                      p == put_transaction(st, processed, fail)
                  IN  IF ~p.ok
                      THEN Outcome(self, st, p.err)
                      ELSE Outcome([self EXCEPT
                                       !.balance = charge(self.balance, transfer.amount),
                                       !.frozen = TRUE],
                                   p.store, Ok)
        ELSE IF transfer.type = "Disputed"
        THEN Outcome(self, st, DisputeError(DISPUTE_MISMATCH))
        ELSE Outcome(self, st, ClientError("TransactionNotFound"))

\* Variant: an applied dispute, resolve or chargeback is also written as a
\* row under its transaction id.
execute_disputed_transaction_logged(self, transaction, st, fail) ==
    LET r == IF transaction.kind = "Dispute"
             THEN execute_dispute(self, transaction.tx, st, fail)
             ELSE IF transaction.kind = "Resolve"
             THEN execute_resolve(self, transaction.tx, st, fail)
             ELSE execute_chargeback(self, transaction.tx, st, fail)
    IN  IF r.result = Ok
        THEN LET p == put_transaction(r.store, transaction, fail)
             IN  IF p.ok THEN Outcome(r.state, p.store, Ok)
                 ELSE Outcome(r.state, r.store, p.err)
        ELSE r

execute_disputed_transaction(self, transaction, st, fail) ==
    IF transaction.kind = "Dispute" THEN execute_dispute(self, transaction.tx, st, fail)
    ELSE IF transaction.kind = "Resolve" THEN execute_resolve(self, transaction.tx, st, fail)
    ELSE execute_chargeback(self, transaction.tx, st, fail)

\* Variant: the updated ClientState is not persisted.
execute_transaction_nopersist(self, transaction, st, fail) ==
    IF self.id # client_id(transaction)
    THEN Outcome(self, st, ClientError("MismatchedClientId"))
    ELSE IF self.frozen
    THEN Outcome(self, st, ClientError("AccountFrozen"))
    ELSE IF transaction.type = "Transfer"
    THEN execute_transfer(self, transaction, st, fail)
    ELSE execute_disputed_transaction(self, transaction, st, fail)

\* Variant: a frozen owner still executes.
execute_transaction_nofrozen(self, transaction, st, fail) ==
    IF self.id # client_id(transaction)
    THEN Outcome(self, st, ClientError("MismatchedClientId"))
    ELSE LET r == IF transaction.type = "Transfer"
                  THEN execute_transfer(self, transaction, st, fail)
                  ELSE execute_disputed_transaction(self, transaction, st, fail)
         IN  IF r.result = Ok
             THEN LET p == put_client_state(r.store, r.state, fail)
                  IN  IF p.ok
                      THEN Outcome(r.state, p.store, Ok)
                      ELSE Outcome(r.state, r.store, p.err)
             ELSE r

\* Variant: the ClientState is persisted after a refused transaction too.
execute_transaction_persistall(self, transaction, st, fail) ==
    IF self.id # client_id(transaction)
    THEN Outcome(self, st, ClientError("MismatchedClientId"))
    ELSE IF self.frozen
    THEN Outcome(self, st, ClientError("AccountFrozen"))
    ELSE LET r == IF transaction.type = "Transfer"
                  THEN execute_transfer(self, transaction, st, fail)
                  ELSE execute_disputed_transaction(self, transaction, st, fail)
         IN  IF ~is_fatal(r.result)
             THEN LET p == put_client_state(r.store, r.state, fail)
                  IN  IF p.ok
                      THEN Outcome(r.state, p.store, r.result)
                      ELSE Outcome(r.state, r.store, p.err)
             ELSE r

\* Variant: the frozen flag is tested before the client id.
execute_transaction_frozenfirst(self, transaction, st, fail) ==
    IF self.frozen
    THEN Outcome(self, st, ClientError("AccountFrozen"))
    ELSE IF self.id # client_id(transaction)
    THEN Outcome(self, st, ClientError("MismatchedClientId"))
    ELSE LET r == IF transaction.type = "Transfer"
                  THEN execute_transfer(self, transaction, st, fail)
                  ELSE execute_disputed_transaction(self, transaction, st, fail)
         IN  IF r.result = Ok
             THEN LET p == put_client_state(r.store, r.state, fail)
                  IN  IF p.ok
                      THEN Outcome(r.state, p.store, Ok)
                      ELSE Outcome(r.state, r.store, p.err)
             ELSE r

execute_transaction(self, transaction, st, fail) ==
    IF self.id # client_id(transaction)
    THEN Outcome(self, st, ClientError("MismatchedClientId"))
    ELSE IF self.frozen
    THEN Outcome(self, st, ClientError("AccountFrozen"))
    ELSE LET r == IF transaction.type = "Transfer"
                  THEN execute_transfer(self, transaction, st, fail)
                  ELSE execute_disputed_transaction(self, transaction, st, fail)
         IN  IF r.result = Ok
             THEN LET p == put_client_state(r.store, r.state, fail)
                  IN  IF p.ok
                      THEN Outcome(r.state, p.store, Ok)
                      ELSE Outcome(r.state, r.store, p.err)
             ELSE r

\* ------------------------------------------------------------------------
\* State of a run.
\*
\* The channels carry a record by the number of its line in the input: the
\* channel and the mailbox never look into a record.  The dispatcher reads
\* only the record's client id (to route it) and execute_transaction reads
\* the rest, so the model draws the client id of a line where the
\* dispatcher receives it and its other fields where the actor executes it.
\* ------------------------------------------------------------------------
VARIABLES
    store,      \* the store engine shared by the dispatcher and all actors
    requests,   \* the input channel: lines sent by the reader, not yet received
    reader,     \* "running" while the reader holds the channel's sender
    sent,       \* number of records the reader has sent in this run
    capacity,   \* capacity of the dispatcher's LRU
    clients,    \* the keys of the LRU, least recently used first
    pc,         \* the dispatcher's position in IoTask::run
    cur,        \* line and client id of the record the dispatcher is handling
    reply,      \* the oneshot the dispatcher awaits
    actors,     \* the spawned Client tasks that have not returned
    last,       \* the execution whose reply the dispatcher has not yet taken
    resumed,    \* per client: the state its latest actor held after its last reply
    ref,        \* the same records applied by actors that are never evicted
    run         \* the kind of run, and the log of a logged run

vars == <<store, requests, reader, sent, capacity, clients, pc, cur, reply, actors,
          last, resumed, ref, run>>

NoItem == [line |-> 0, client |-> 0]
NoReply == [kind |-> "Pending", msg |-> ""]
NoReq == [client |-> 0, callback |-> 0]
NoLast == [type |-> "None"]

\* ClientRequest { transaction, callback }: the oneshot of a request is
\* named by the input line of its record.
ClientRequest(item) == [client |-> item.client, callback |-> item.line]

\* A spawned task: Client { state, rx, store } together with the position
\* of Client::run.  `id` is the client the task was spawned for and `open`
\* holds while the ClientHandle (the only Sender of the mailbox) is alive.
\* The handle of client c, in the LRU or in the miss branch, is the handle
\* of the open task spawned for c.
Client_with_state(id, state, mailbox) ==
    [id |-> id, pc |-> "idle", state |-> state, rx |-> mailbox, req |-> NoReq,
     open |-> TRUE]

Handle(id) == CHOOSE a \in actors : a.id = id /\ a.open

Executing == { a \in actors : a.pc = "exec" }

\* Dropping the ClientHandles of `ids` closes the mailboxes of their tasks.
DropHandles(acts, ids) ==
    { IF a.id \in ids /\ a.open THEN [a EXCEPT !.open = FALSE] ELSE a : a \in acts }

\* LruCache::get: the position of the key (0 on a miss); a hit makes the
\* entry the most recently used one.
LruIndex(lru, id) ==
    IF \E i \in 1..Len(lru) : lru[i] = id
    THEN CHOOSE i \in 1..Len(lru) : lru[i] = id
    ELSE 0

LruPromote(lru, i) ==
    [j \in 1..Len(lru) |-> IF j < i THEN lru[j]
                           ELSE IF j < Len(lru) THEN lru[j + 1]
                           ELSE lru[i]]

\* LruCache::put of a key that is not cached: at capacity the least
\* recently used entry is removed (and its handle dropped) first.
LruEvicted(lru, cap) == IF Len(lru) >= cap THEN {Head(lru)} ELSE {}

\* Variant: at capacity the most recently used entry is removed.
LruPut_mru(lru, cap, id) ==
    Append(IF Len(lru) >= cap THEN SubSeq(lru, 1, Len(lru) - 1) ELSE lru, id)

LruPut(lru, cap, id) == Append(IF Len(lru) >= cap THEN Tail(lru) ELSE lru, id)

\* The reference run: one actor per client, created on first contact from
\* the reference store and never evicted, applying the same records over a
\* store that never fails.
RefState(r, c) ==
    IF r.mem[c] # None THEN r.mem[c]
    ELSE IF ClientRow(r.store, c) # None THEN ClientRow(r.store, c)
    ELSE ClientState_new(c)

RefStep(r, t) ==
    LET out == execute_transaction(RefState(r, client_id(t)), t, r.store, "none")
    IN  [store |-> out.store, mem |-> [r.mem EXCEPT ![client_id(t)] = out.state]]

\* A run sends at most `limit` records, drawn from all records or from
\* the narrow ones (of client 1 alone when `solo`, from the wide input when
\* `wide`, keeping the logged input well-formed when `strict`); its store
\* can fail when `faulty`.  pass 0 is a plain
\* run; pass 1 logs the records it applies, with their lines, the actor
\* applying them, the result and the balance before and after, in the order
\* of application; pass 2 is a second run of the program over the input and
\* the store of a finished pass 1, whose final clients keyspace is kept in
\* `first`.
Run(pass, limit, faulty, narrow) ==
    [pass |-> pass, limit |-> limit, faulty |-> faulty, narrow |-> narrow,
     solo |-> FALSE, wide |-> FALSE, strict |-> FALSE, log |-> <<>>, first |-> None]

\* What `last` holds after an execution: the line and the record, the
\* state of the executing actor and the store before the call.
Execution(line, t, state, st) ==
    [type |-> "Execution", line |-> line, transaction |-> t, state |-> state,
     store |-> st]

InitRun ==
    /\ requests = <<>>
    /\ reader = "running"
    /\ sent = 0
    /\ capacity \in 1..MaxCapacity
    /\ clients = <<>>
    /\ pc = "recv"
    /\ cur = NoItem
    /\ reply = NoReply
    /\ actors = {}
    /\ last = NoLast
    /\ resumed = [c \in ClientIds |-> None]

InitStore ==
    /\ store = EmptyStore
    /\ ref = [store |-> EmptyStore, mem |-> [c \in ClientIds |-> None]]

Init == InitRun /\ InitStore /\ run = Run(0, MaxTx, FALSE, FALSE)

\* A well-formed input: no two transfers carry the same TxId, and a
\* dispute, resolve or chargeback names no transfer of another client.
WellFormed(input) ==
    \A i, j \in 1..Len(input) :
        /\ (i # j /\ input[i].type = "Transfer" /\ input[j].type = "Transfer")
              => input[i].tx # input[j].tx
        /\ (input[i].type = "Disputed" /\ input[j].type = "Transfer"
               /\ input[i].tx = input[j].tx)
              => input[i].client = input[j].client

\* The records a well-formed input is drawn from: transfers of the largest
\* amount, and any dispute, resolve or chargeback.
StrictTransaction ==
    { t \in Transaction : t.type = "Transfer" => t.amount = MaxAmount }

\* The records line n of the input can hold: any record, or in the replay
\* of a logged input the record of that line.
InputRecord(n) ==
    IF run.pass = 2
    THEN { run.log[i].transaction : i \in { j \in 1..Len(run.log) : run.log[j].line = n } }
    ELSE IF run.narrow THEN NarrowTransaction
    ELSE IF run.solo THEN SoloTransaction
    ELSE IF run.wide THEN WideTransaction
    ELSE IF run.strict
    THEN { t \in StrictTransaction :
             WellFormed([i \in 1..Len(run.log) |-> run.log[i].transaction] \o <<t>>) }
    ELSE Transaction

\* ------------------------------------------------------------------------
\* The reader (src/parser/reader/mod.rs)
\* ------------------------------------------------------------------------
Stopped == pc \in {"done", "failed", "panicked"}

SendLimit == IF run.pass = 2 THEN Len(run.log) ELSE run.limit

\* sender.send(tx).await of the next record of the file.
ReaderSend ==
    /\ reader = "running"
    /\ ~Stopped
    /\ sent < SendLimit
    /\ Len(requests) < MaxBuffer
    /\ requests' = Append(requests, sent + 1)
    /\ sent' = sent + 1
    /\ UNCHANGED <<store, reader, capacity, clients, pc, cur, reply, actors, last,
                   resumed, ref, run>>

\* The reader returns (end of the file, or the channel was closed under
\* it) and drops its sender.
ReaderClose ==
    /\ reader = "running"
    /\ run.pass = 2 => (sent = Len(run.log) \/ Stopped)
    /\ reader' = "closed"
    /\ UNCHANGED <<store, requests, sent, capacity, clients, pc, cur, reply, actors,
                   last, resumed, ref, run>>

\* ------------------------------------------------------------------------
\* The dispatcher (src/io.rs, IoTask::run)
\* ------------------------------------------------------------------------
\* on_result: TRUE when the dispatcher panics on the reply.
on_result(result) == result.kind # "Ok" /\ is_fatal(result)

\* Variant: the channel hands out its newest message first.
Recv_lifo(q) == [item |-> q[Len(q)], rest |-> SubSeq(q, 1, Len(q) - 1)]

\* The receiving end of a channel: the message received and the channel
\* after it.
Recv(q) == [item |-> Head(q), rest |-> Tail(q)]

\* requests.next() yields the next record.
Received(item) ==
    /\ pc = "recv"
    /\ requests # <<>>
    /\ item.line = Recv(requests).item
    /\ item.client \in { client_id(t) : t \in InputRecord(item.line) }
    /\ requests' = Recv(requests).rest
    /\ cur' = item

\* handle.execute_transaction up to its second await: the request is sent
\* into the mailbox of the handle's task.
\* Variant: the request is sent into the mailbox of every task.
Send_all(acts, id, request) ==
    { [a EXCEPT !.rx = Append(@, request)] : a \in acts }

Send(acts, id, request) ==
    { IF a = Handle(id) THEN [a EXCEPT !.rx = Append(@, request)] ELSE a : a \in acts }

\* Variant: the hit branch does not await the reply.
DispatchHit_noawait ==
    /\ \E id \in ClientIds :
         LET item == [line |-> Recv(requests).item, client |-> id]
             i == LruIndex(clients, id)
         IN  /\ Received(item)
             /\ i # 0
             /\ clients' = LruPromote(clients, i)
             /\ actors' = Send(actors, id, ClientRequest(item))
    /\ pc' = "recv"
    /\ reply' = NoReply
    /\ UNCHANGED <<store, reader, sent, capacity, last, resumed, ref, run>>

\* The record's client is cached: clients.get promotes the entry,
\* handle.execute_transaction sends the request and the dispatcher awaits
\* the reply.
DispatchHit ==
    /\ \E id \in ClientIds :
         LET item == [line |-> Recv(requests).item, client |-> id]
             i == LruIndex(clients, id)
         IN  /\ Received(item)
             /\ i # 0
             /\ clients' = LruPromote(clients, i)
             /\ actors' = Send(actors, id, ClientRequest(item))
    /\ pc' = "await_hit"
    /\ reply' = NoReply
    /\ UNCHANGED <<store, reader, sent, capacity, last, resumed, ref, run>>

\* Variant: the miss branch does not await the reply; the handle enters the
\* LRU at once and the dispatcher takes the next record.
DispatchMiss_noawait ==
    /\ \E id \in ClientIds :
         LET item == [line |-> Head(requests), client |-> id]
             g == get_client_state(store, id, "none")
             state == IF g.value = None THEN ClientState_new(id) ELSE g.value
         IN  /\ pc = "recv"
             /\ requests # <<>>
             /\ id \in { client_id(t) : t \in InputRecord(item.line) }
             /\ requests' = Tail(requests)
             /\ cur' = item
             /\ LruIndex(clients, id) = 0
             /\ clients' = LruPut(clients, capacity, id)
             /\ actors' = DropHandles(actors, LruEvicted(clients, capacity)) \cup
                            {Client_with_state(id, state, <<ClientRequest(item)>>)}
    /\ pc' = "recv"
    /\ reply' = NoReply
    /\ UNCHANGED <<store, reader, sent, capacity, last, resumed, ref, run>>

\* The client is not cached: ClientHandle::new reads the client's row,
\* spawns a Client with that state (or a default one), and the request is
\* sent to it.  The handle enters the LRU only after the reply.
DispatchMiss ==
    /\ \E id \in ClientIds :
         LET item == [line |-> Recv(requests).item, client |-> id]
             g == get_client_state(store, id, "none")
             state == IF g.value = None THEN ClientState_new(id) ELSE g.value
         IN  /\ Received(item)
             /\ LruIndex(clients, id) = 0
             /\ actors' = actors \cup
                            {Client_with_state(id, state, <<ClientRequest(item)>>)}
    /\ pc' = "await_miss"
    /\ reply' = NoReply
    /\ UNCHANGED <<store, reader, sent, capacity, clients, last, resumed, ref, run>>

\* The program ends on a store error (main panics on the Err of run, and
\* a panic of on_result unwinds main): the runtime is dropped with every
\* task still spawned on it.
Abort ==
    /\ clients' = <<>>
    /\ actors' = {}
    /\ requests' = <<>>
    /\ reader' = "closed"
    /\ last' = NoLast

\* ClientHandle::new fails on the store: run returns the error.
DispatchMissFailed ==
    /\ run.faulty
    /\ pc = "recv"
    /\ requests # <<>>
    /\ \E id \in { client_id(t) : t \in InputRecord(Recv(requests).item) } :
         LET g == get_client_state(store, id, "get_client_state")
         IN  /\ LruIndex(clients, id) = 0
             /\ ~g.ok
             /\ cur' = [line |-> Recv(requests).item, client |-> id]
             /\ reply' = g.err
    /\ pc' = "failed"
    /\ Abort
    /\ UNCHANGED <<store, sent, capacity, resumed, ref, run>>

\* The reply is Ok or a non-fatal error: on_result returns; in the miss
\* branch the new handle is put into the LRU, which may evict (and so drop)
\* the least recently used handle.
OnResult ==
    /\ pc \in {"await_hit", "await_miss"}
    /\ reply # NoReply
    /\ ~on_result(reply)
    /\ IF pc = "await_miss"
       THEN /\ clients' = LruPut(clients, capacity, cur.client)
            /\ actors' = DropHandles(actors, LruEvicted(clients, capacity))
       ELSE UNCHANGED <<clients, actors>>
    /\ pc' = "recv"
    /\ cur' = NoItem
    /\ reply' = NoReply
    /\ last' = NoLast
    /\ UNCHANGED <<store, requests, reader, sent, capacity, resumed, ref, run>>

\* The reply is a store error: on_result panics.
OnResultPanic ==
    /\ pc \in {"await_hit", "await_miss"}
    /\ reply # NoReply
    /\ on_result(reply)
    /\ pc' = "panicked"
    /\ Abort
    /\ UNCHANGED <<store, sent, capacity, cur, reply, resumed, ref, run>>

\* Variant: run returns as soon as the reader has dropped its sender.
DispatcherDone_early ==
    /\ pc = "recv"
    /\ reader = "closed"
    /\ pc' = "done"
    /\ clients' = <<>>
    /\ actors' = DropHandles(actors, ClientIds)
    /\ UNCHANGED <<store, requests, reader, sent, capacity, cur, reply, last, resumed,
                   ref, run>>

\* requests.next() yields None: the channel is empty and the reader has
\* dropped its sender.  run returns Ok and drops the LRU.
DispatcherDone ==
    /\ pc = "recv"
    /\ requests = <<>>
    /\ reader = "closed"
    /\ pc' = "done"
    /\ clients' = <<>>
    /\ actors' = DropHandles(actors, ClientIds)
    /\ UNCHANGED <<store, requests, reader, sent, capacity, cur, reply, last, resumed,
                   ref, run>>

\* ------------------------------------------------------------------------
\* The client actor (src/client/mod.rs, Client::run)
\* ------------------------------------------------------------------------
FailPoints ==
    IF run.faulty
    THEN {"none", "get_transaction", "put_transaction", "put_client_state"}
    ELSE {"none"}

\* requests.next().await yields a request.
ActorRecv(a) ==
    /\ a.pc = "idle"
    /\ a.rx # <<>>
    /\ actors' = (actors \ {a}) \cup
                   {[a EXCEPT !.pc = "exec", !.req = Recv(a.rx).item,
                              !.rx = Recv(a.rx).rest]}
    /\ UNCHANGED <<store, requests, reader, sent, capacity, clients, pc, cur, reply,
                   last, resumed, ref, run>>

\* state.execute_transaction(transaction, &store) and callback.send(result).
ActorExec(a) ==
    /\ a.pc = "exec"
    /\ \E fail \in FailPoints :
       \E t \in { u \in InputRecord(a.req.callback) : client_id(u) = a.req.client } :
         LET out == execute_transaction(a.state, t, store, fail)
         IN  /\ store' = out.store
             /\ actors' = (actors \ {a}) \cup
                            {[a EXCEPT !.pc = "idle", !.req = NoReq, !.state = out.state]}
             /\ reply' = IF pc \in {"await_hit", "await_miss"} /\ cur.line = a.req.callback
                         THEN out.result
                         ELSE reply
             /\ last' = Execution(a.req.callback, t, a.state, store)
             /\ resumed' = [resumed EXCEPT ![a.id] = out.state]
             /\ ref' = RefStep(ref, t)
             /\ run' = IF run.pass = 1
                       THEN [run EXCEPT !.log =
                                Append(@, [line |-> a.req.callback, transaction |-> t,
                                           actor |-> a.id, result |-> out.result,
                                           before |-> a.state.balance,
                                           after |-> out.state.balance])]
                       ELSE run
    /\ UNCHANGED <<requests, reader, sent, capacity, clients, pc, cur>>

\* requests.next().await yields None: every Sender of the mailbox is gone
\* and the mailbox is empty; run returns.
ActorExit(a) ==
    /\ a.pc = "idle"
    /\ a.rx = <<>>
    /\ ~a.open
    /\ actors' = actors \ {a}
    /\ UNCHANGED <<store, requests, reader, sent, capacity, clients, pc, cur, reply,
                   last, resumed, ref, run>>

NextOk ==
    \/ ReaderSend
    \/ ReaderClose
    \/ DispatchHit
    \/ DispatchMiss
    \/ OnResult
    \/ DispatcherDone
    \/ \E a \in actors : ActorRecv(a)
    \/ \E a \in actors : ActorExec(a)
    \/ \E a \in actors : ActorExit(a)

Next == NextOk

Spec == Init /\ [][Next]_vars

\* A run over the narrow input, with more records.
InitDeep == InitRun /\ InitStore /\ run = Run(0, MaxDeepTx, FALSE, TRUE)

SpecDeep == InitDeep /\ [][Next]_vars

\* A run over an input that names one client.
InitSolo ==
    InitRun /\ InitStore /\ run = [Run(0, MaxSoloTx, FALSE, FALSE) EXCEPT !.solo = TRUE]

SpecSolo == InitSolo /\ [][Next]_vars

\* A run that logs the records it applies.
InitLog == InitRun /\ InitStore /\ run = Run(1, MaxLogTx, FALSE, TRUE)

SpecLog == InitLog /\ [][Next]_vars

\* A run whose store can fail.
InitFaulty == InitRun /\ InitStore /\ run = Run(0, MaxFaultyTx, TRUE, FALSE)

NextFaulty ==
    \/ NextOk
    \/ DispatchMissFailed
    \/ OnResultPanic

SpecFaulty == InitFaulty /\ [][NextFaulty]_vars

\* The tokio runtime polls every task that can make progress: the
\* dispatcher and the spawned actors.
Fairness ==
    /\ WF_vars(DispatchHit \/ DispatchMiss \/ DispatchMissFailed \/ OnResult
               \/ OnResultPanic \/ DispatcherDone)
    /\ WF_vars(\E a \in actors : ActorRecv(a) \/ ActorExec(a) \/ ActorExit(a))

\* A fairly scheduled run over the narrow input whose store can fail.
InitFairFaulty == InitRun /\ InitStore /\ run = Run(0, MaxFaultyTx, TRUE, TRUE)

FairSpecFaulty == InitFairFaulty /\ [][NextFaulty]_vars /\ Fairness

\* A run over the narrow input whose store can fail and that logs the
\* records it applies.
InitFaultyLog == InitRun /\ InitStore /\ run = Run(1, MaxLogTx, TRUE, TRUE)

SpecFaultyLog == InitFaultyLog /\ [][NextFaulty]_vars

\* A run over a well-formed input that logs the records it applies.
InitStrict ==
    InitRun /\ InitStore /\ run = [Run(1, MaxStrictTx, FALSE, FALSE) EXCEPT !.strict = TRUE]

SpecStrict == InitStrict /\ [][Next]_vars

\* A fairly scheduled run over the narrow input, without store failures,
\* that logs the records it applies.
InitLive == InitRun /\ InitStore /\ run = Run(1, MaxLiveTx, FALSE, TRUE)

FairSpecLive == InitLive /\ [][Next]_vars /\ Fairness

\* A fairly scheduled run over the wide input.
InitWide ==
    InitRun /\ InitStore /\ run = [Run(0, MaxWideTx, FALSE, FALSE) EXCEPT !.wide = TRUE]

FairSpecWide == InitWide /\ [][Next]_vars /\ Fairness

\* execute_transaction called directly on one ClientState (as the unit
\* tests of src/client/tests.rs do: ClientState::new(id), then calls with
\* any transaction, of this client or of another) over a store that can
\* fail at any of its calls.  `cur.client` is the owner, `resumed` holds
\* its state, `sent` counts the calls and `last` also names the store call
\* that was set to fail.
DirectExecution(line, t, state, st, fail) ==
    [type |-> "Execution", line |-> line, transaction |-> t, state |-> state,
     store |-> st, fail |-> fail]

InitCall ==
    /\ requests = <<>>
    /\ reader = "closed"
    /\ sent = 0
    /\ capacity = 1
    /\ clients = <<>>
    /\ pc = "direct"
    /\ cur \in { [line |-> 0, client |-> c] : c \in InputClientIds }
    /\ reply = NoReply
    /\ actors = {}
    /\ last = NoLast
    /\ resumed = [c \in ClientIds |-> IF c = cur.client THEN ClientState_new(c) ELSE None]
    /\ InitStore
    /\ run = Run(0, MaxCallTx, TRUE, FALSE)

Call ==
    /\ pc = "direct"
    /\ sent < run.limit
    /\ ~is_fatal(reply)
    /\ \E t \in Transaction, fail \in FailPoints :
         LET self == resumed[cur.client]
             out == execute_transaction(self, t, store, fail)
         IN  /\ store' = out.store
             /\ resumed' = [resumed EXCEPT ![cur.client] = out.state]
             /\ reply' = out.result
             /\ last' = DirectExecution(sent + 1, t, self, store, fail)
    /\ sent' = sent + 1
    /\ UNCHANGED <<requests, reader, capacity, clients, pc, cur, actors, ref, run>>

SpecCall == InitCall /\ [][Call]_vars

\* The store facade called directly on one MemStore (as load_store and
\* assert_store_client of src/client/tests.rs do), with any Transaction and
\* any ClientState and with a backend that can fail the call.  `last` holds
\* the call, its result and the store before it; `ref` holds, for every
\* id, the value of the last successful put under it.
StoreTransaction ==
    { TransferTransaction(k, c, x, MaxAmount, d) :
        k \in TransferTransactionKind, c \in InputClientIds, x \in TxIds,
        d \in DisputeStatus }
    \cup
    { DisputedTransaction(k, c, x) :
        k \in DisputedTransactionKind, c \in InputClientIds, x \in TxIds }

StoreClientState ==
    { ClientState(c, Account(a, h), f) :
        c \in InputClientIds, a \in Amounts, h \in 0..MaxAmount, f \in BOOLEAN }

StoreCall(op, arg, ok, value, st) ==
    [type |-> op, arg |-> arg, ok |-> ok, value |-> value, store |-> st]

InitFacade ==
    /\ requests = <<>>
    /\ reader = "closed"
    /\ sent = 0
    /\ capacity = 1
    /\ clients = <<>>
    /\ pc = "facade"
    /\ cur = NoItem
    /\ reply = NoReply
    /\ actors = {}
    /\ last = NoLast
    /\ resumed = [c \in ClientIds |-> None]
    /\ store = EmptyStore
    /\ ref = [transactions |-> [x \in TxIds |-> None],
              clients |-> [c \in ClientIds |-> None]]
    /\ run = Run(0, MaxStoreOps, TRUE, FALSE)

FacadeCall ==
    /\ pc = "facade"
    /\ sent < run.limit
    /\ sent' = sent + 1
    /\ UNCHANGED <<requests, reader, capacity, clients, pc, cur, reply, actors,
                   resumed, run>>

PutTransaction ==
    /\ FacadeCall
    /\ \E t \in StoreTransaction, fail \in {"none", "put_transaction"} :
         LET p == put_transaction(store, t, fail)
         IN  /\ store' = p.store
             /\ ref' = IF p.ok THEN [ref EXCEPT !.transactions[t.tx] = t] ELSE ref
             /\ last' = StoreCall("put_transaction", t, p.ok, None, store)

GetTransaction ==
    /\ FacadeCall
    /\ \E x \in TxIds, fail \in {"none", "get_transaction"} :
         LET g == get_transaction(store, x, fail)
         IN  last' = StoreCall("get_transaction", x, g.ok, g.value, store)
    /\ UNCHANGED <<store, ref>>

PutClientState ==
    /\ FacadeCall
    /\ \E state \in StoreClientState, fail \in {"none", "put_client_state"} :
         LET p == put_client_state(store, state, fail)
         IN  /\ store' = p.store
             /\ ref' = IF p.ok THEN [ref EXCEPT !.clients[state.id] = state] ELSE ref
             /\ last' = StoreCall("put_client_state", state, p.ok, None, store)

GetClientState ==
    /\ FacadeCall
    /\ \E c \in ClientIds, fail \in {"none", "get_client_state"} :
         LET g == get_client_state(store, c, fail)
         IN  last' = StoreCall("get_client_state", c, g.ok, g.value, store)
    /\ UNCHANGED <<store, ref>>

NextFacade ==
    \/ PutTransaction
    \/ GetTransaction
    \/ PutClientState
    \/ GetClientState

SpecFacade == InitFacade /\ [][NextFacade]_vars

\* The program is run a second time on the same input file over the store
\* the first run left (main: DiskStore::new(DEFAULT_DIR) opens the
\* existing store).
Restart ==
    /\ run.pass = 1
    /\ pc = "done"
    /\ actors = {}
    /\ run' = [run EXCEPT !.pass = 2, !.first = store[CLIENTS_KS]]
    /\ requests' = <<>>
    /\ reader' = "running"
    /\ sent' = 0
    /\ clients' = <<>>
    /\ pc' = "recv"
    /\ cur' = NoItem
    /\ reply' = NoReply
    /\ last' = NoLast
    /\ resumed' = [c \in ClientIds |-> None]
    /\ UNCHANGED <<store, capacity, actors, ref>>

InitReplay == InitRun /\ InitStore /\ run = Run(1, MaxReplayTx, FALSE, FALSE)

NextReplay == NextOk \/ Restart

SpecReplay == InitReplay /\ [][NextReplay]_vars

\* ========================================================================
\* Properties
\* ========================================================================
Range(q) == { q[i] : i \in 1..Len(q) }

Executed == last # NoLast

Aborted == pc \in {"failed", "panicked"}

NonFatalError == reply.kind \notin {"Pending", "Ok", "StoreError"}

\* The status a successful dispute, resolve or chargeback leaves on the row.
StatusAfter(kind) ==
    IF kind = "Dispute" THEN Disputed
    ELSE IF kind = "Resolve" THEN NotDisputed
    ELSE Resolved

\* This step is a call of execute_transaction that returned Ok.
ExecutedOk == last = NoLast /\ last' # NoLast /\ reply' = Ok

\* C1: the held lane of every client is >= 0, in the memory of every actor
\* and in every row of the clients keyspace, in every reachable state.
C1_HeldNonNegative ==
    /\ \A a \in actors : a.state.balance.held >= 0
    /\ \A c \in ClientIds :
         ClientRow(store, c) # None => ClientRow(store, c).balance.held >= 0

\* C2: a dispute, resolve or chargeback of client A naming a TxId whose
\* stored transfer belongs to another client is not applied: A's state and
\* the stored row of that TxId are as before the call.
C2_ForeignDisputeNotApplied ==
    (Executed /\ last.transaction.type = "Disputed") =>
        LET t == last.transaction
            row == TxRow(last.store, t.tx)
        IN  (row.type = "Transfer" /\ row.client # client_id(t)) =>
                /\ resumed[client_id(t)] = last.state
                /\ TxRow(store, t.tx) = row

\* C3: the records of one client are applied in the order of their input
\* lines, the order in which the reader sent them.
C3_PerClientFifo ==
    \A i, j \in 1..Len(run.log) :
        (i < j /\ client_id(run.log[i].transaction) = client_id(run.log[j].transaction))
            => run.log[i].line < run.log[j].line

\* C3 witness: a client had a record applied, then another client evicted
\* its actor from an LRU of capacity 1, then it had a record applied again.
C3_Witness ==
    /\ capacity = 1
    /\ \E i, j, k \in 1..Len(run.log) :
         /\ i < j /\ j < k
         /\ client_id(run.log[i].transaction) = client_id(run.log[k].transaction)
         /\ client_id(run.log[i].transaction) # client_id(run.log[j].transaction)

\* C4: at most one actor of a client is inside execute_transaction.
C4_OneExecutionPerClient ==
    \A c \in ClientIds : Cardinality({ a \in Executing : a.id = c }) <= 1

\* C4 witness: an actor executes a record of a client while an evicted
\* actor of the same client has not yet returned.
C4_Witness ==
    \E a, b \in actors : a.id = b.id /\ a.open /\ a.pc = "exec" /\ ~b.open

\* C5: the actor holding a client's handle holds the state the client's
\* latest actor had after its last reply (so an actor created after an
\* eviction starts from it), and the two keyspaces equal those of the run
\* in which no actor is ever evicted.
C5_EvictionInvisible ==
    /\ \A a \in actors : (a.open /\ resumed[a.id] # None) => a.state = resumed[a.id]
    /\ store = ref.store

\* C5 witness: a new actor of a client, its first request still in the
\* mailbox, starts from a state other than the default while the evicted
\* actor of that client is still there.
C5_Witness ==
    \E a, b \in actors :
        /\ a.id = b.id /\ a.open /\ ~b.open
        /\ a.pc = "idle" /\ a.rx # <<>>
        /\ a.state # ClientState_new(a.id)

\* C6: a record for a client whose stored row is frozen returns
\* AccountFrozen and leaves the actor's state and the client's row as they
\* were, whether the actor froze the client itself or was created from the
\* frozen row.
C6_FrozenIsFinal ==
    Executed =>
        LET c == client_id(last.transaction)
            row == ClientRow(last.store, c)
        IN  (row # None /\ row.frozen) =>
                /\ reply.kind = "AccountFrozen"
                /\ resumed[c] = last.state
                /\ ClientRow(store, c) = row

\* C6 witness: an actor created on a cache miss from a frozen row has
\* answered AccountFrozen.
C6_Witness ==
    /\ Executed
    /\ pc = "await_miss"
    /\ reply.kind = "AccountFrozen"
    /\ ClientRow(store, client_id(last.transaction)).frozen

\* C7: a second run over the same input, on the store the first run left,
\* ends with the client rows the first run ended with.
C7_ReplayKeepsClientRows ==
    (run.pass = 2 /\ pc = "done") => store[CLIENTS_KS] = run.first

C9_FailedCallChangesNothing ==
    (Executed /\ NonFatalError) =>
        /\ resumed[last.state.id] = last.state
        /\ store = last.store

\* C9 witness: a withdrawal of a client whose funds are held has failed with
\* InsufficientFunds.
C9_Witness ==
    /\ Executed
    /\ reply.kind = "InsufficientFunds"
    /\ last.state.balance.held > 0
    /\ ClientRow(store, last.state.id) # None

\* C10: the dispatcher stops early only on a store error, and every record
\* waiting in the input channel is applied unless a store error stops the
\* dispatcher first; so a non-fatal reply stops nothing.
C10_NonFatalContinues ==
    /\ [](Aborted => reply.kind = "StoreError")
    /\ \A n \in 1..MaxFaultyTx :
         (n \in Range(requests)) ~> ((Executed /\ last.line = n) \/ Aborted)

\* C10 witness: an actor has replied with a non-fatal error while a record
\* waits in the input channel.
C10_Witness ==
    /\ pc \in {"await_hit", "await_miss"}
    /\ NonFatalError
    /\ requests # <<>>

\* C11: once an actor has replied with a store error, or the rehydration of
\* a client has failed on the store, the error stays, the store is not
\* written again, no record is executed and no record is forwarded to an
\* actor: the dispatcher takes no further record.
C11_StoreErrorStops ==
    [][reply.kind = "StoreError" =>
          /\ reply' = reply
          /\ store' = store
          /\ last' \in {last, NoLast}
          /\ pc' \notin {"recv", "done"}
          /\ \A a \in actors' : a.rx = <<>> /\ a.pc = "idle"]_vars

\* C11 witness: an actor has replied with a store error while a later
\* record waits in the input channel.
C11_Witness ==
    /\ reply.kind = "StoreError"
    /\ pc \in {"await_hit", "await_miss"}
    /\ requests # <<>>

\* C12: without store errors and under fair scheduling, once the reader
\* has closed the input channel the dispatcher terminates; when it has
\* terminated every record sent has been applied, in the order sent, and
\* replied to; and after it has terminated every actor terminates.
C12_DrainsThenTerminates ==
    /\ (reader = "closed") ~> (pc = "done")
    /\ [](pc = "done" =>
            /\ requests = <<>>
            /\ reply = NoReply
            /\ last = NoLast
            /\ Len(run.log) = sent
            /\ \A i \in 1..sent : run.log[i].line = i)
    /\ (pc = "done") ~> (actors = {})

\* C12 witness: the input channel is closed with a record queued in it
\* while the dispatcher awaits the reply of a cached client's actor.
C12_Witness ==
    /\ reader = "closed"
    /\ requests # <<>>
    /\ pc = "await_hit"
    /\ actors # {}

\* C13: distinct clients progress in parallel: the dispatcher does not wait
\* for the reply of one client before handing the next record to the actor
\* of another, so while a reply is pending and a record is queued the
\* dispatcher can take that record.
C13_ClientsInParallel ==
    (pc \in {"await_hit", "await_miss"} /\ reply = NoReply /\ requests # <<>>)
        => ENABLED (DispatchHit \/ DispatchMiss)

\* The row the executed record names, as stored before the call.
Target == TxRow(last.store, last.transaction.tx)

\* The execution is a dispute, resolve or chargeback (`kind`) by an actor
\* whose client is not frozen.
Called(kind) ==
    /\ Executed
    /\ last.transaction.type = "Disputed"
    /\ last.transaction.kind = kind
    /\ ~last.state.frozen

\* The call changed neither keyspace nor the state of the actor.
NothingChanged ==
    /\ store = last.store
    /\ resumed[last.state.id] = last.state

IsDeposit(row) == row.type = "Transfer" /\ row.kind = "Deposit"

IsWithdrawal(row) == row.type = "Transfer" /\ row.kind = "Withdrawal"

\* C14: Resolved is terminal: a stored row with status Resolved keeps that
\* status in every step, whatever record of whatever client is executed.
C14_ResolvedIsTerminal ==
    [][\A x \in TxIds :
          (TxRow(store, x).type = "Transfer" /\ TxRow(store, x).disputed = Resolved)
              => (TxRow(store', x).type = "Transfer"
                    /\ TxRow(store', x).disputed = Resolved)]_vars

\* C15: a dispute executed for a non-frozen client that names a deposit
\* stored with status Resolved fails with "Transaction is already disputed"
\* and changes neither the row nor a balance.
C15_DisputeOfResolvedFails ==
    (Called("Dispute") /\ IsDeposit(Target) /\ Target.disputed = Resolved) =>
        /\ reply = DisputeError(ALREADY_DISPUTED)
        /\ NothingChanged

\* C16: a chargeback executed for a non-frozen client that names a deposit
\* stored with status Resolved fails with "Dispute already resolved" and
\* changes neither the row, the balance nor the frozen flag.
C16_ChargebackOfResolvedFails ==
    (Called("Chargeback") /\ IsDeposit(Target) /\ Target.disputed = Resolved) =>
        /\ reply = DisputeError(DISPUTE_RESOLVED)
        /\ NothingChanged

\* C16 witness: a non-frozen client's chargeback of a charged-back deposit
\* has been executed.
C16_Witness ==
    /\ Called("Chargeback")
    /\ IsDeposit(Target)
    /\ Target.disputed = Resolved
    /\ reply.kind = "DisputeError"

\* The execution is a dispute, resolve or chargeback (`kind`), by an actor
\* whose client is frozen or not.
CalledAny(kind) ==
    /\ Executed
    /\ last.transaction.type = "Disputed"
    /\ last.transaction.kind = kind

\* C17 (as claimed): a dispute naming a deposit stored with status Disputed
\* fails with "Transaction is already disputed", moves no funds and leaves
\* the row Disputed.
C17_SecondDisputeFails ==
    (CalledAny("Dispute") /\ IsDeposit(Target) /\ Target.disputed = Disputed) =>
        /\ reply = DisputeError(ALREADY_DISPUTED)
        /\ NothingChanged

\* C17 (amended): a dispute executed for a non-frozen client that names a
\* deposit stored with status Disputed fails with "Transaction is already
\* disputed", moves no funds and leaves the row Disputed.
C17_SecondDisputeFailsUnlessFrozen ==
    (Called("Dispute") /\ IsDeposit(Target) /\ Target.disputed = Disputed) =>
        /\ reply = DisputeError(ALREADY_DISPUTED)
        /\ NothingChanged

\* C17 witness: a client holding funds of a disputed deposit has disputed
\* that deposit again.
C17_Witness ==
    /\ Called("Dispute")
    /\ IsDeposit(Target)
    /\ Target.disputed = Disputed
    /\ last.state.balance.held > 0
    /\ reply.kind = "DisputeError"

\* C18 (as claimed): a resolve or chargeback naming a transfer stored with
\* status NotDisputed fails with "Transaction is not disputed", releases
\* and charges nothing and does not freeze the client.
C18_UndisputedFails ==
    \A kind \in {"Resolve", "Chargeback"} :
        (CalledAny(kind) /\ Target.type = "Transfer" /\ Target.disputed = NotDisputed) =>
            /\ reply = DisputeError(NOT_DISPUTED)
            /\ NothingChanged

\* C18 (amended): a resolve or chargeback executed for a non-frozen client
\* that names a transfer stored with status NotDisputed fails with
\* "Transaction is not disputed", releases and charges nothing and does not
\* freeze the client.
C18_UndisputedFailsUnlessFrozen ==
    \A kind \in {"Resolve", "Chargeback"} :
        (Called(kind) /\ Target.type = "Transfer" /\ Target.disputed = NotDisputed) =>
            /\ reply = DisputeError(NOT_DISPUTED)
            /\ NothingChanged

\* C18 witness: a client with funds has asked for the chargeback of a
\* deposit that is not disputed.
C18_Witness ==
    /\ Called("Chargeback")
    /\ IsDeposit(Target)
    /\ Target.disputed = NotDisputed
    /\ last.state.balance.available > 0
    /\ reply.kind = "DisputeError"

\* No withdrawal row has a status other than NotDisputed, and a dispute,
\* resolve or chargeback naming a withdrawal leaves the held lane as it was.
WithdrawalsUntouched ==
    /\ \A x \in TxIds :
         IsWithdrawal(TxRow(store, x)) => TxRow(store, x).disputed = NotDisputed
    /\ (Executed /\ last.transaction.type = "Disputed" /\ IsWithdrawal(Target)) =>
         resumed[last.state.id].balance.held = last.state.balance.held

\* C19 (as claimed): a dispute naming a stored withdrawal always fails with
\* "Cannot dispute a withdrawal"; no withdrawal row has a status other than
\* NotDisputed and no withdrawal amount is moved to held.
C19_WithdrawalNotDisputable ==
    /\ (CalledAny("Dispute") /\ IsWithdrawal(Target)) =>
         (reply = DisputeError(DISPUTE_WITHDRAWAL) /\ NothingChanged)
    /\ WithdrawalsUntouched

\* C19 (amended): a dispute executed for a non-frozen client that names a
\* stored withdrawal fails with "Cannot dispute a withdrawal"; no
\* withdrawal row has a status other than NotDisputed and no withdrawal
\* amount is moved to held.
C19_WithdrawalNotDisputableUnlessFrozen ==
    /\ (Called("Dispute") /\ IsWithdrawal(Target)) =>
         (reply = DisputeError(DISPUTE_WITHDRAWAL) /\ NothingChanged)
    /\ WithdrawalsUntouched

\* C19 witness: a client has disputed its withdrawal of a positive amount.
C19_Witness ==
    /\ Called("Dispute")
    /\ IsWithdrawal(Target)
    /\ Target.amount > 0
    /\ reply.kind = "DisputeError"

\* C20: a dispute, resolve or chargeback executed for a non-frozen client
\* that names a TxId without a row returns TransactionNotFound and changes
\* nothing.
C20_MissingRowNotFound ==
    \A kind \in DisputedTransactionKind :
        (Called(kind) /\ Target = None) =>
            /\ reply = ClientError("TransactionNotFound")
            /\ NothingChanged

\* C20 witness: a client that has a stored row has asked to resolve a TxId
\* that has no row.
C20_Witness ==
    /\ Called("Resolve")
    /\ Target = None
    /\ ClientRow(store, last.state.id) # None
    /\ reply.kind = "TransactionNotFound"

\* The state of the executing actor after the call.
After == resumed[last.state.id]

\* C21: a dispute of a NotDisputed deposit of amount a, executed for a
\* non-frozen client, succeeds whatever the available funds are; a
\* successful one sets the row's status to Disputed, takes a from available
\* and adds a to held, so the total is unchanged.
C21_DisputeHolds ==
    (CalledAny("Dispute") /\ IsDeposit(Target) /\ Target.disputed = NotDisputed) =>
        /\ ~last.state.frozen => reply = Ok
        /\ reply = Ok =>
             /\ TxRow(store, Target.tx) = [Target EXCEPT !.disputed = Disputed]
             /\ After.balance.available = last.state.balance.available - Target.amount
             /\ After.balance.held = last.state.balance.held + Target.amount
             /\ After.balance.available + After.balance.held
                  = last.state.balance.available + last.state.balance.held

\* C21 witness: a deposit whose funds were withdrawn has been disputed and
\* available has become negative.
C21_Witness ==
    /\ CalledAny("Dispute")
    /\ IsDeposit(Target)
    /\ Target.client = last.state.id
    /\ reply = Ok
    /\ last.state.balance.available < Target.amount
    /\ After.balance.available < 0

\* The logged executions before the j-th that succeeded as `kind` on TxId x.
Succeeded(kind, x, j) ==
    { i \in 1..(j - 1) :
        /\ run.log[i].result = Ok
        /\ run.log[i].transaction.type = "Disputed"
        /\ run.log[i].transaction.kind = kind
        /\ run.log[i].transaction.tx = x }

Latest(S) == CHOOSE i \in S : \A k \in S : k <= i

\* C22: a successful resolve undoes the dispute it follows: it is executed
\* for the client the dispute was executed for, it moves back from held to
\* available exactly what the dispute moved, and it leaves the row a
\* NotDisputed deposit, which can be disputed again.
C22_ResolveUndoesDispute ==
    LET j == Len(run.log)
        e == run.log[j]
        x == e.transaction.tx
        D == Succeeded("Dispute", x, j)
        d == run.log[Latest(D)]
    IN  (/\ j > 0
         /\ e.result = Ok
         /\ e.transaction.type = "Disputed"
         /\ e.transaction.kind = "Resolve"
         /\ \A c \in Succeeded("Chargeback", x, j) : \E i \in D : c < i) =>
            /\ D # {}
            /\ e.actor = d.actor
            /\ e.after.available - e.before.available
                 = d.before.available - d.after.available
            /\ e.after.held - e.before.held = d.before.held - d.after.held
            /\ IsDeposit(TxRow(store, x))
            /\ TxRow(store, x).disputed = NotDisputed

\* C23: a successful chargeback of a Disputed deposit of amount a sets the
\* row's status to Resolved, takes a from held, leaves available as it was
\* and freezes the client; the stored client row carries the reduced held
\* and the frozen flag.
C23_ChargebackCharges ==
    (CalledAny("Chargeback") /\ reply = Ok /\ IsDeposit(Target)
        /\ Target.disputed = Disputed) =>
            /\ TxRow(store, Target.tx) = [Target EXCEPT !.disputed = Resolved]
            /\ After.balance.held = last.state.balance.held - Target.amount
            /\ After.balance.available = last.state.balance.available
            /\ After.frozen
            /\ ClientRow(store, last.state.id) = After

\* C23 witness: a client has charged back its disputed deposit of a
\* positive amount.
C23_Witness ==
    /\ CalledAny("Chargeback")
    /\ reply = Ok
    /\ IsDeposit(Target)
    /\ Target.client = last.state.id
    /\ Target.amount > 0
    /\ last.state.balance.held > 0

\* The execution is a deposit or withdrawal (`kind`).
Transferred(kind) ==
    /\ Executed
    /\ last.transaction.type = "Transfer"
    /\ last.transaction.kind = kind

\* What the claim says of an executed withdrawal of amount a >= 0: it
\* succeeds exactly when available - a >= 0, then takes a from available
\* and leaves held, and otherwise fails with InsufficientFunds.
WithdrawalRule ==
    LET a == last.transaction.amount
        balance == last.state.balance
    IN  /\ reply = Ok <=> balance.available - a >= 0
        /\ reply = Ok =>
             /\ After.balance = Account(balance.available - a, balance.held)
             /\ After.balance.available >= 0
        /\ reply # Ok =>
             /\ reply = ClientError("InsufficientFunds")
             /\ NothingChanged

\* C24 (as claimed): every withdrawal of an amount a >= 0 follows the rule.
C24_WithdrawalIffFunds ==
    (Transferred("Withdrawal") /\ last.transaction.amount >= 0) => WithdrawalRule

\* C24 (amended): every withdrawal of an amount a >= 0 executed for a
\* non-frozen client follows the rule.
C24_WithdrawalIffFundsUnlessFrozen ==
    (Transferred("Withdrawal") /\ last.transaction.amount >= 0 /\ ~last.state.frozen)
        => WithdrawalRule

\* C24 witness: a client with held funds has withdrawn exactly its
\* available funds.
C24_Witness ==
    /\ Transferred("Withdrawal")
    /\ reply = Ok
    /\ last.transaction.amount = last.state.balance.available
    /\ last.transaction.amount > 0
    /\ last.state.balance.held > 0

\* An executed deposit was accepted: it returned Ok, added its amount to
\* available and left held.
DepositAccepted ==
    /\ reply = Ok
    /\ After.balance = Account(last.state.balance.available + last.transaction.amount,
                               last.state.balance.held)

Overdrawn ==
    /\ Executed
    /\ last.state.balance.available < 0
    /\ \E x \in TxIds :
         /\ IsDeposit(TxRow(last.store, x))
         /\ TxRow(last.store, x).client = last.state.id
         /\ TxRow(last.store, x).disputed = Disputed

\* C26 (as claimed): while a client is overdrawn by a dispute every
\* withdrawal fails with InsufficientFunds and every deposit is accepted,
\* raising available by its amount and leaving held.
C26_OverdrawnClient ==
    Overdrawn =>
        /\ Transferred("Withdrawal") => reply = ClientError("InsufficientFunds")
        /\ Transferred("Deposit") => DepositAccepted

\* C26 (amended): while a non-frozen client is overdrawn by a dispute every
\* withdrawal of an amount a >= 0 fails with InsufficientFunds and every
\* deposit of an amount a >= 0 is accepted, raising available by a and
\* leaving held.
C26_OverdrawnClientValidAmounts ==
    (Overdrawn /\ ~last.state.frozen /\ last.transaction.type = "Transfer"
        /\ last.transaction.amount >= 0) =>
            /\ Transferred("Withdrawal") => reply = ClientError("InsufficientFunds")
            /\ Transferred("Deposit") => DepositAccepted

\* C26 witness: an overdrawn client has made a deposit that leaves it
\* overdrawn no more.
C26_Witness ==
    /\ Overdrawn
    /\ Transferred("Deposit")
    /\ last.transaction.amount > 0
    /\ reply = Ok
    /\ After.balance.available >= 0

\* C27: after every call of execute_transaction that does not return a
\* StoreError, the row stored in the clients keyspace under the client's id,
\* once there is one (the client has had a successful transaction), equals
\* the actor's in-memory ClientState (id, balance, frozen); a successful
\* call always leaves such a row, and a later non-fatal failure keeps the
\* two equal.
Returned == Executed /\ reply # NoReply /\ ~is_fatal(reply)

C27_StoredStateIsMemoryState ==
    Returned =>
        LET c == last.state.id
        IN  /\ ClientRow(store, c) # None => ClientRow(store, c) = resumed[c]
            /\ reply = Ok => ClientRow(store, c) # None
            /\ \A a \in actors : (a.id = c /\ a.open) => a.state = resumed[c]

C27_Witness ==
    /\ Returned
    /\ reply = ClientError("InsufficientFunds")
    /\ ClientRow(store, last.state.id) # None
    /\ ClientRow(store, last.state.id).balance.held > 0

\* C28: the transactions keyspace holds only Transfer rows (deposits and
\* withdrawals, as the reader produced them up to the dispute status), in
\* every state reachable from the empty store: no Dispute, Resolve or
\* Chargeback record is ever written as a row.
TransferRow(row) ==
    /\ row.type = "Transfer"
    /\ row.kind \in TransferTransactionKind
    /\ row.disputed \in DisputeStatus
    /\ [row EXCEPT !.disputed = NotDisputed] \in Transaction

C28_OnlyTransferRows ==
    \A x \in TxIds : TxRow(store, x) # None => TransferRow(TxRow(store, x))

C28_Witness ==
    /\ CalledAny("Resolve")
    /\ reply = Ok
    /\ TxRow(store, last.transaction.tx) # TxRow(last.store, last.transaction.tx)
    /\ TransferRow(TxRow(store, last.transaction.tx))
    /\ \E x \in TxIds : x # last.transaction.tx /\ IsWithdrawal(TxRow(store, x))

\* C29: the LRU never holds more handles than its capacity.  Putting the
\* handle of a new client into a full LRU removes the least recently used
\* entry and appends the new one, a put into an LRU that is not full only
\* appends, and a hit moves the client to the most recently used end.  The
\* removal drops the handle, which closes the mailbox of that client's
\* actor; an actor whose mailbox is closed is not removed while it holds a
\* request, and it eventually terminates.
Evicted(c) == \E a \in actors : a.id = c /\ ~a.open

LruPutDone ==
    (pc = "await_miss" /\ pc' = "recv") =>
        IF Len(clients) >= capacity
        THEN /\ clients' = Append(Tail(clients), cur.client)
             /\ \A a \in actors :
                  (a.open /\ a.id = Head(clients)) =>
                      /\ a \notin actors'
                      /\ [a EXCEPT !.open = FALSE] \in actors'
             /\ \A a \in actors : (a.open /\ a.id # Head(clients)) => a \in actors'
        ELSE /\ clients' = Append(clients, cur.client)
             /\ actors' = actors

LruGetDone ==
    (pc = "recv" /\ pc' = "await_hit") =>
        /\ \E i \in 1..Len(clients) : clients[i] = cur'.client
        /\ clients' = Append(SelectSeq(clients, LAMBDA c : c # cur'.client), cur'.client)
        /\ Len(clients') = Len(clients)

ClosedActorDrains ==
    \A a \in actors :
        (~a.open /\ (a.rx # <<>> \/ a.pc = "exec")) =>
            \E b \in actors' : b.id = a.id /\ ~b.open

C29_LruEvictsLeastRecentlyUsed ==
    /\ [](Len(clients) <= capacity)
    /\ [][LruPutDone /\ LruGetDone /\ ClosedActorDrains]_vars
    /\ \A c \in ClientIds : Evicted(c) ~> ~Evicted(c)

\* C29 witness: with three clients and two handles, the client that was
\* hit last stayed and the other one was evicted.
C29_Witness ==
    /\ capacity = 2
    /\ pc = "recv"
    /\ clients = <<1, 3>>
    /\ Evicted(2)
    /\ resumed[1] # None /\ resumed[1].balance.available = 2 * MaxAmount

\* C30: every record the dispatcher has taken from the input channel is
\* applied exactly once, by an actor of the record's own client, and gets
\* exactly one reply: the applied records are the taken ones except the
\* one whose reply is still pending, no line is applied twice, the only
\* request held by any actor is the pending one, and the reply the
\* dispatcher holds is the result of the last application, which is the
\* record it awaits; at the end every record sent has been applied.  (When
\* the program stops on a store error the records taken are those up to
\* the one the dispatcher stopped at.)
Taken == IF pc \in {"failed", "panicked"} THEN cur.line ELSE sent - Len(requests)

Applied == { run.log[i].line : i \in 1..Len(run.log) }

Awaiting == pc \in {"await_hit", "await_miss"}

Held(a) == Range(a.rx) \cup (IF a.pc = "exec" THEN {a.req} ELSE {})

C30_AppliedExactlyOnce ==
    /\ \A i, j \in 1..Len(run.log) : run.log[i].line = run.log[j].line => i = j
    /\ \A i \in 1..Len(run.log) : run.log[i].actor = client_id(run.log[i].transaction)
    /\ Applied = { n \in 1..Taken : ~(Awaiting /\ reply = NoReply /\ n = cur.line) }
    /\ \A a \in actors :
         /\ Len(a.rx) + (IF a.pc = "exec" THEN 1 ELSE 0) <= 1
         /\ \A r \in Held(a) :
              /\ Awaiting /\ reply = NoReply
              /\ r = ClientRequest(cur)
              /\ a.id = cur.client
              /\ \A b \in actors : Held(b) # {} => b = a
    /\ (Awaiting /\ reply # NoReply) =>
         /\ run.log # <<>>
         /\ run.log[Len(run.log)].line = cur.line
         /\ run.log[Len(run.log)].actor = cur.client
         /\ run.log[Len(run.log)].result = reply
    /\ (Awaiting /\ reply = NoReply) => \E a \in actors : Held(a) # {}
    /\ pc = "done" => Applied = 1..sent

\* C30, for the records whose client could be rehydrated: when
\* ClientHandle::new fails on the store the dispatcher returns the error
\* and the record it had taken is applied by no actor.
C30_AppliedExactlyOnceIfRehydrated ==
    pc # "failed" => C30_AppliedExactlyOnce

\* C30 witness: a finished run over an LRU of capacity 1 in which a record
\* found its client's actor cached and the next one evicted that actor.
C30_Witness ==
    /\ pc = "done"
    /\ capacity = 1
    /\ Len(run.log) = MaxLogTx
    /\ \E i \in 1..(Len(run.log) - 2) :
         /\ run.log[i].actor = run.log[i + 1].actor
         /\ run.log[i + 1].actor # run.log[i + 2].actor

\* C31: execute_transaction tests the client id first and the frozen flag
\* second.  A transaction of another client returns MismatchedClientId,
\* also when the owner is frozen; AccountFrozen is returned only when the
\* ids match (and then whenever the owner is frozen); in both cases the
\* store is neither written nor read: it is unchanged, and the result is
\* the same whichever store call is set to fail.
C31_PreconditionsInOrder ==
    Executed =>
        /\ last.state.id # client_id(last.transaction) =>
              /\ reply = ClientError("MismatchedClientId")
              /\ NothingChanged
        /\ reply = ClientError("AccountFrozen") =>
              /\ last.state.id = client_id(last.transaction)
              /\ last.state.frozen
        /\ (last.state.id = client_id(last.transaction) /\ last.state.frozen) =>
              /\ reply = ClientError("AccountFrozen")
              /\ NothingChanged

\* C31 witness: a frozen owner was handed a dispute of another client while
\* the read of the transactions keyspace was set to fail.
C31_Witness ==
    /\ Executed
    /\ last.state.frozen
    /\ last.state.id # client_id(last.transaction)
    /\ last.transaction.type = "Disputed"
    /\ last.fail = "get_transaction"
    /\ reply = ClientError("MismatchedClientId")

\* The row a successful call writes into the transactions keyspace: the
\* transfer itself, or the disputed transfer with its new status.
RowWritten ==
    IF last.transaction.type = "Transfer"
    THEN last.transaction
    ELSE [Target EXCEPT !.disputed = StatusAfter(last.transaction.kind)]

FailedAt(call) == Executed /\ last.fail = call /\ is_fatal(reply)

\* C32: the row of the transactions keyspace is written before the row of
\* the clients keyspace: when the write of the client row fails the
\* transaction row has been written, and when the write of the transaction
\* row fails neither row is written.  For a dispute, resolve or chargeback
\* the transaction row is also written before the balance is touched: when
\* its write fails the ClientState in memory is unchanged.  A successful
\* call has written both rows.
C32_TransactionRowFirst ==
    /\ FailedAt("put_client_state") =>
          /\ TxRow(store, last.transaction.tx) = RowWritten
          /\ store[CLIENTS_KS] = last.store[CLIENTS_KS]
    /\ FailedAt("put_transaction") =>
          /\ store = last.store
          /\ last.transaction.type = "Disputed" => After = last.state
    /\ (Executed /\ reply = Ok) =>
          /\ TxRow(store, last.transaction.tx) = RowWritten
          /\ ClientRow(store, last.state.id) = After

\* C32 witness: the write of the client row failed after a dispute had set
\* the status of the deposit's row.
C32_Witness ==
    /\ FailedAt("put_client_state")
    /\ last.transaction.type = "Disputed"
    /\ last.transaction.kind = "Dispute"
    /\ TxRow(last.store, last.transaction.tx).disputed = NotDisputed
    /\ TxRow(store, last.transaction.tx).disputed = Disputed
    /\ ClientRow(store, last.state.id).balance.held = 0
    /\ After.balance.held > 0

\* What the call did to the total of the executing ClientState.
TotalChange == get_total(After.balance) - get_total(last.state.balance)

\* What a successful call does to the total: + amount for a deposit,
\* - amount for a withdrawal, - the amount of the transfer charged back for
\* a chargeback, nothing for a dispute or a resolve.
TotalChangeOk ==
    IF last.transaction.type = "Transfer"
    THEN IF last.transaction.kind = "Deposit"
         THEN last.transaction.amount
         ELSE 0 - last.transaction.amount
    ELSE IF last.transaction.kind = "Chargeback"
         THEN 0 - Target.amount
         ELSE 0

\* No call touches the row of a client other than the one it executes for,
\* and a failed call leaves the row of its own client as it was.
RowsKept ==
    /\ \A c \in ClientIds :
         c # last.state.id => ClientRow(store, c) = ClientRow(last.store, c)
    /\ reply # Ok => ClientRow(store, last.state.id) = ClientRow(last.store, last.state.id)

\* C33 (as claimed): the total (available + held) of a client changes only
\* by a successful deposit (+ amount), withdrawal (- amount) or chargeback
\* (- amount of the transfer charged back); every successful dispute and
\* resolve and every failed transaction leaves it unchanged.
C33_TotalChanges ==
    (Executed /\ reply # NoReply) =>
        /\ TotalChange = (IF reply = Ok THEN TotalChangeOk ELSE 0)
        /\ RowsKept

\* C33 (amended): the same for the successful calls and for the calls that
\* fail with an error other than a StoreError; a call that fails with a
\* StoreError leaves the stored total unchanged (the in-memory total of a
\* transfer or chargeback whose write failed has already changed).
C33_TotalChangesUnlessStoreError ==
    (Executed /\ reply # NoReply) =>
        /\ ~is_fatal(reply) => TotalChange = (IF reply = Ok THEN TotalChangeOk ELSE 0)
        /\ RowsKept

\* C33 witness: a chargeback of a client's own deposit took the amount of
\* the deposit out of the total of that client, in memory and in the store.
C33_Witness ==
    /\ CalledAny("Chargeback")
    /\ reply = Ok
    /\ Target.client = last.state.id
    /\ Target.amount > 0
    /\ TotalChange = 0 - Target.amount
    /\ get_total(ClientRow(store, last.state.id).balance) =
         get_total(ClientRow(last.store, last.state.id).balance) - Target.amount

\* The keys of a keyspace other than `key` hold what they held before the
\* call.
OtherKeysKept(keyspace, key) ==
    \A k \in Keys \ {key} : store[keyspace][k] = last.store[keyspace][k]

\* C34: the facade is an upsert and a point lookup per keyspace.
\* get_transaction(x) returns the Transaction of the last successful
\* put_transaction with TxId x (None before the first) and
\* get_client_state(c) the ClientState of the last successful
\* put_client_state with id c; a put changes no other key of its keyspace
\* and nothing of the other keyspace, also when a ClientId and a TxId are
\* the same number; a get and a failed put change nothing.
C34_UpsertAndLookup ==
    /\ \A x \in TxIds : get_transaction(store, x, "none").value = ref.transactions[x]
    /\ \A c \in ClientIds : get_client_state(store, c, "none").value = ref.clients[c]
    /\ (last # NoLast /\ last.type = "put_transaction") =>
          /\ OtherKeysKept(TRANSACTIONS_KS, serialize_u32(last.arg.tx))
          /\ store[CLIENTS_KS] = last.store[CLIENTS_KS]
          /\ ~last.ok => store = last.store
    /\ (last # NoLast /\ last.type = "put_client_state") =>
          /\ OtherKeysKept(CLIENTS_KS, serialize_u16(last.arg.id))
          /\ store[TRANSACTIONS_KS] = last.store[TRANSACTIONS_KS]
          /\ ~last.ok => store = last.store
    /\ (last # NoLast /\ last.type = "get_transaction") =>
          /\ store = last.store
          /\ last.ok => last.value = ref.transactions[last.arg]
    /\ (last # NoLast /\ last.type = "get_client_state") =>
          /\ store = last.store
          /\ last.ok => last.value = ref.clients[last.arg]

\* C34 witness: the state of client 1 was put while transaction 1 was
\* stored; a lookup of transaction 1 then returned the disputed transfer
\* that had been put.
C34_Witness ==
    /\ last # NoLast
    /\ last.type = "get_transaction"
    /\ last.arg = 1
    /\ last.ok
    /\ last.value.type = "Transfer"
    /\ last.value.disputed = Disputed
    /\ ref.clients[1] # None
    /\ ref.clients[1].frozen

\* The records applied so far, in the order of application.
AppliedInput == [i \in 1..Len(run.log) |-> run.log[i].transaction]

\* The sum of the amounts of the deposits of client c among the rows of
\* TxIds 1..n whose stored status is Disputed.
RECURSIVE DisputedSum(_, _, _)
DisputedSum(st, c, n) ==
    IF n = 0 THEN 0
    ELSE DisputedSum(st, c, n - 1) +
         (IF /\ IsDeposit(TxRow(st, n))
             /\ TxRow(st, n).client = c
             /\ TxRow(st, n).disputed = Disputed
          THEN TxRow(st, n).amount
          ELSE 0)

\* The balances a client has: in the memory of its open actor, after its
\* last execution, and in its row.
BalancesOf(c) ==
    { a.state.balance : a \in { b \in actors : b.id = c /\ b.open } }
    \cup (IF resumed[c] # None THEN {resumed[c].balance} ELSE {})
    \cup (IF ClientRow(store, c) # None THEN {ClientRow(store, c).balance} ELSE {})

Outstanding(a) == Len(a.rx) + (IF a.pc = "exec" THEN 1 ELSE 0)

Busy == { a \in actors : Outstanding(a) > 0 }

\* C36: the dispatcher has at most one request outstanding in the whole
\* system.  While it is about to take a record, and once it holds a reply,
\* no actor holds a request; so every mailbox holds at most one request, at
\* most one actor is executing, and only one actor holds anything at all.
C36_OneRequestOutstanding ==
    /\ \A a \in actors : Len(a.rx) <= 1 /\ Outstanding(a) <= 1
    /\ Cardinality(Executing) <= 1
    /\ Cardinality(Busy) <= 1
    /\ pc = "recv" => Busy = {}
    /\ reply # NoReply => Busy = {}
    /\ Busy # {} => Awaiting /\ reply = NoReply

\* C36 witness: two open actors exist; one of them executes a request and
\* the other one is idle with an empty mailbox.
C36_Witness ==
    /\ capacity = 2
    /\ Cardinality({ a \in actors : a.open }) = 2
    /\ \E a \in actors : a.open /\ a.pc = "exec"
    /\ Cardinality(Busy) = 1
    /\ \E a \in actors : a.open /\ a.pc = "idle" /\ a.rx = <<>>

\* The client is frozen: in its row and in its state after its last
\* execution.
Frozen(c) ==
    /\ ClientRow(store, c) # None
    /\ ClientRow(store, c).frozen
    /\ resumed[c] # None => resumed[c].frozen

\* C37: a transfer row has status Resolved only if the client named by the
\* row is frozen, in every reachable state: a chargeback freezes the client
\* whose deposit is charged back.
C37_ResolvedOnlyIfOwnerFrozen ==
    \A x \in TxIds :
        (TxRow(store, x).type = "Transfer" /\ TxRow(store, x).disputed = Resolved)
            => Frozen(TxRow(store, x).client)

\* The store before the call without the row of the call's TxId, and what
\* the call does over it: the transfer as a fresh one.
FreshStore ==
    MemStore_put(last.store, TRANSACTIONS_KS, serialize_u32(last.transaction.tx), Absent)

Fresh == execute_transaction(last.state, last.transaction, FreshStore, "none")

\* C38: a deposit or withdrawal whose TxId already has a row is treated as
\* a fresh transfer: it returns what it would return, and leaves the
\* ClientState and the store it would leave, if the TxId had no row; when
\* it succeeds the row becomes the transfer itself (its kind, client and
\* amount) with status NotDisputed, whatever the replaced row was.
C38_DuplicateTxIdReplacesRow ==
    (Executed /\ last.transaction.type = "Transfer" /\ Target # None) =>
        /\ reply = Fresh.result
        /\ After = Fresh.state
        /\ reply = Ok =>
              /\ store = Fresh.store
              /\ TxRow(store, last.transaction.tx) = last.transaction
              /\ TxRow(store, last.transaction.tx).disputed = NotDisputed
        /\ reply # Ok => store = last.store

\* C38 witness: a withdrawal replaced the row of a deposit of another
\* client that was under dispute.
C38_Witness ==
    /\ Transferred("Withdrawal")
    /\ reply = Ok
    /\ IsDeposit(Target)
    /\ Target.disputed = Disputed
    /\ Target.client # last.state.id
    /\ IsWithdrawal(TxRow(store, last.transaction.tx))
    /\ TxRow(store, last.transaction.tx).disputed = NotDisputed

\* The clients that had a record applied with result Ok.
Successful == { run.log[i].actor : i \in { j \in 1..Len(run.log) : run.log[j].result = Ok } }

\* The clients that had a record fail on the store.
Broken == { run.log[i].actor : i \in { j \in 1..Len(run.log) : is_fatal(run.log[j].result) } }

\* C39: the clients keyspace holds a row for client c exactly when a record
\* of c has been applied with result Ok.  A client whose records all failed
\* has no row, although an actor was created for it, with the default
\* state (which it keeps unless a record failed on the store).
C39_RowIffSuccess ==
    /\ \A c \in ClientIds : (ClientRow(store, c) # None) <=> (c \in Successful)
    /\ \A a \in actors :
         a.id \notin (Successful \cup Broken) => a.state = ClientState_new(a.id)

\* C39 witness: a client has only a refused withdrawal behind it and no
\* row, its actor holds the default state, and another client has a row.
C39_Witness ==
    /\ \E a \in actors :
         /\ a.pc = "idle"
         /\ a.state = ClientState_new(a.id)
         /\ ClientRow(store, a.id) = None
         /\ \E i \in 1..Len(run.log) :
              /\ run.log[i].actor = a.id
              /\ run.log[i].result = ClientError("InsufficientFunds")
    /\ \E c \in ClientIds : ClientRow(store, c) # None

\* C40: when the transfers of the input carry distinct TxIds and every
\* dispute, resolve and chargeback names a transfer of its own client, the
\* available funds of a client are negative only while one of its deposits
\* is stored with status Disputed or the client is frozen: a client that is
\* not frozen and has no Disputed deposit has available >= 0.
HasDisputedDeposit(c) ==
    \E x \in TxIds :
        /\ IsDeposit(TxRow(store, x))
        /\ TxRow(store, x).client = c
        /\ TxRow(store, x).disputed = Disputed

StatesOf(c) ==
    { a.state : a \in { b \in actors : b.id = c /\ b.open } }
    \cup (IF resumed[c] # None THEN {resumed[c]} ELSE {})
    \cup (IF ClientRow(store, c) # None THEN {ClientRow(store, c)} ELSE {})

====
